---- MODULE Spec2Model ----
(***************************************************************************)
(* Model of the inline sub-workflow handler of flytepropeller              *)
(* (pkg/controller/nodes/subworkflow/subworkflow.go).                      *)
(*                                                                         *)
(* One behaviour follows one enclosing node.  Every action is one          *)
(* reconciliation tick: a whole call of StartSubWorkflow,                  *)
(* CheckSubWorkflowStatus, HandleFailingSubWorkflow or HandleAbort.  The   *)
(* results of the collaborators (recursive node executor, artifact store,  *)
(* status store, re-enqueue callback) are drawn with \E at the point where *)
(* the code calls them.                                                    *)
(***************************************************************************)
EXTENDS Integers, Sequences, FiniteSets, TLC

\* ------------------------------------------------------------------ bounds
MaxNodes == 2       \* child nodes of the sub-workflow: 1..MaxNodes
MaxAttempts == 2    \* retries of the enclosing node: attempts 0..MaxAttempts
MaxErrors == 2      \* distinct execution errors the driver can report

Nodes == 1..MaxNodes
ErrorIds == 1..MaxErrors

VARIABLES
    subWorkflow,    \* what FindSubWorkflow returns: NilSubWorkflow or a record
    uniqueNodeID,   \* status.GetUniqueNodeID() of the enclosing node
    attempt,        \* nCtx.CurrentAttempt()
    childStatus,    \* NodeStatus of every child node (the fields set here)
    wfState,        \* persisted handler.WorkflowNodeState {Phase, Error}
    nodePhase,      \* phase of the enclosing node, kept by the caller
    copies,         \* number of CopyRaw calls made so far
    origErr,        \* history: error of the last persisted failure detection
    lookupAttempt,  \* history: attempt of the last completed NodeLookup build
    assigned,       \* history: per child, the <<attempt, ID>> pairs assigned
    last            \* record of the last tick: entry point, result, calls

vars == <<subWorkflow, uniqueNodeID, attempt, childStatus, wfState, nodePhase,
          copies, origErr, lookupAttempt, assigned, last>>

\* ------------------------------------------------------------- data values
NilSubWorkflow == [found |-> FALSE, onFailureNode |-> FALSE, outputBindings |-> 0]

NoError == [kind |-> "none", id |-> 0]

\* state.Err of a failed driver run: an execution error of the sub-workflow
NodeError(e) == [kind |-> "NodeError", id |-> e]

UnsetStatus == [uniqueNodeID |-> <<>>, uniqueParentNodeID |-> <<>>, parentAttempts |-> 0]

UndefinedState == [Phase |-> "Undefined", Error |-> NoError]

NoPut == [Phase |-> "none", Error |-> NoError]

\* ------------------------------------------- handler package (transitions)
PhaseInfoUndefined == [phase |-> "Undefined", err |-> NoError, output |-> "none"]

UnknownTransition == PhaseInfoUndefined

PhaseInfoRunning == [phase |-> "Running", err |-> NoError, output |-> "none"]

PhaseInfoSuccess(oInfo) == [phase |-> "Succeeded", err |-> NoError, output |-> oInfo]

PhaseInfoFailure(code) ==
    [phase |-> "Failed", err |-> [kind |-> code, id |-> 0], output |-> "none"]

PhaseInfoFailureErr(e) == [phase |-> "Failed", err |-> e, output |-> "none"]

PhaseInfoFailingErr(e) == [phase |-> "Failing", err |-> e, output |-> "none"]

\* ------------------------------------------- executors package (NodeStatus)
NodePhases == {"Queued", "Running", "Success", "Complete", "Failed"}

HasFailed(state) == state.NodePhase = "Failed"

IsComplete(state) == state.NodePhase = "Complete"

PartiallyComplete(state) == state.NodePhase = "Success"

\* -------------------------------------------------- identity of child nodes
Digit(d) == <<"0", "1", "2", "3", "4", "5", "6", "7", "8", "9">>[d + 1]

RECURSIVE Itoa(_)
Itoa(n) == IF n < 10 THEN <<Digit(n)>> ELSE Itoa(n \div 10) \o <<Digit(n % 10)>>

NodeName(n) == <<"n", Digit(n)>>

ComputeUniqueIDForNode(nodeID, parentID, attemptStr) ==
    parentID \o <<"-">> \o attemptStr \o <<"-">> \o nodeID

Count(calls, name) == Cardinality({i \in 1..Len(calls) : calls[i] = name})


\* ------------------------------------------------------------ initial state
Init ==
    /\ subWorkflow \in {NilSubWorkflow} \cup
           [found : {TRUE}, onFailureNode : BOOLEAN, outputBindings : {0, 1}]
    /\ uniqueNodeID \in {<<"p">>, <<"q">>}
    /\ attempt = 0
    /\ childStatus = [n \in Nodes |-> UnsetStatus]
    /\ wfState = UndefinedState
    /\ nodePhase = "NotStarted"
    /\ copies = 0
    /\ origErr = NoError
    /\ lookupAttempt = -1
    /\ assigned = [n \in Nodes |-> {}]
    /\ last = [op |-> "none", trans |-> PhaseInfoUndefined, err |-> "nil",
               calls |-> <<>>, state |-> [NodePhase |-> "none", Err |-> NoError],
               head |-> "none", put |-> NoPut, abort |-> "none",
               start |-> "none", attempt |-> 0]

\* ------------------------------------------------- the caller of the handler
\* The external control loop: which entry point it invokes in which phase of
\* the enclosing node, and how it folds the returned transition into it.
CanStart == nodePhase = "NotStarted"

CanCheck == nodePhase = "Running"

CanHandleFailing == nodePhase = "Failing"

CanAbort == nodePhase \in {"NotStarted", "Running", "Failing"}

ApplyTransition(phase, trans, err) ==
    IF err # "nil" \/ trans.phase = "Undefined" THEN phase
    ELSE IF trans.phase = "Running" /\ phase = "Failing" THEN "Failing"
    ELSE trans.phase

\* Only system-level and node execution failures are retried by the outer
\* retry policy; structural failures are terminal.
Retryable(err) == err.kind \in {"RuntimeExecutionError", "NodeError"}

\* ------------------------------------------------------------ tick plumbing
NoState == [NodePhase |-> "none", Err |-> NoError]

NewTick(op) ==
    [op |-> op, calls |-> <<>>, state |-> NoState, head |-> "none", put |-> NoPut,
     persisted |-> FALSE, built |-> FALSE, set |-> {}, wf |-> wfState,
     ch |-> childStatus, err |-> "nil", start |-> "none"]

Call(t, name) == [t EXCEPT !.calls = Append(@, name)]

Return(t, trans, err) ==
    /\ last' = [op |-> t.op, trans |-> trans, err |-> err, calls |-> t.calls,
                state |-> t.state, head |-> t.head, put |-> t.put,
                abort |-> "none", start |-> t.start, attempt |-> attempt]
    /\ wfState' = t.wf
    /\ childStatus' = t.ch
    /\ copies' = copies + Count(t.calls, "CopyRaw")
    /\ nodePhase' = ApplyTransition(nodePhase, trans, err)
    /\ origErr' = IF t.persisted THEN t.state.Err ELSE origErr
    /\ lookupAttempt' = IF t.built THEN attempt ELSE lookupAttempt
    /\ assigned' = [n \in Nodes |->
                       IF n \in t.set
                       THEN assigned[n] \cup {<<attempt, t.ch[n].uniqueNodeID>>}
                       ELSE assigned[n]]
    /\ UNCHANGED <<subWorkflow, uniqueNodeID, attempt>>

\* Results the recursive node executor can report for the graph it drives.
DriverStates ==
    [NodePhase : {"Failed"}, Err : {NodeError(e) : e \in ErrorIds}] \cup
    [NodePhase : NodePhases \ {"Failed"},
     Err : {NoError} \cup {NodeError(e) : e \in ErrorIds}]


\* ----------------------------------------------------------- GetSubWorkflow
GetSubWorkflow_NilNotChecked == "nil"

\* FindSubWorkflow returned nil: GetSubWorkflow returns an error.
GetSubWorkflow == IF subWorkflow.found THEN "nil" ELSE "FindSubWorkflowErr"

\* ------------------------------------------- fetchNodeLookupForSubWorkflow
CurrentAttemptStr_Constant == Itoa(0)

CurrentAttemptStr == Itoa(attempt)

\* Outcomes of the loop over the children: it runs to the end (failAt =
\* MaxNodes + 1) or returns at child failAt, where the status lookup or the
\* ID computation failed.
FetchOutcomes ==
    [failAt : {MaxNodes + 1}, err : {"nil"}] \cup
    [failAt : Nodes, err : {"GetNodeExecutionStatusErr", "ComputeUniqueIDErr"}]

fetchNodeLookupForSubWorkflow_Chained(t, f) ==
    [t EXCEPT
        !.calls = Append(@, "fetchNodeLookupForSubWorkflow"),
        !.err = f.err,
        !.built = (f.err = "nil"),
        !.set = {n \in Nodes : n < f.failAt},
        !.ch = [n \in Nodes |->
                  IF n < f.failAt
                  THEN [uniqueNodeID |->
                            ComputeUniqueIDForNode(NodeName(n),
                                IF t.ch[n].uniqueNodeID = <<>> THEN uniqueNodeID
                                ELSE t.ch[n].uniqueNodeID,
                                CurrentAttemptStr),
                        uniqueParentNodeID |-> uniqueNodeID,
                        parentAttempts |-> attempt]
                  ELSE t.ch[n]]]

fetchNodeLookupForSubWorkflow(t, f) ==
    [t EXCEPT
        !.calls = Append(@, "fetchNodeLookupForSubWorkflow"),
        !.err = f.err,
        !.built = (f.err = "nil"),
        !.set = {n \in Nodes : n < f.failAt},
        !.ch = [n \in Nodes |->
                  IF n < f.failAt
                  THEN [uniqueNodeID |->
                            ComputeUniqueIDForNode(NodeName(n), uniqueNodeID,
                                                   CurrentAttemptStr),
                        uniqueParentNodeID |-> uniqueNodeID,
                        parentAttempts |-> attempt]
                  ELSE t.ch[n]]]

\* --------------------------------------------------------- handleSubWorkflow
FailureDetectedTransition_AlwaysFailed(sw, e) == PhaseInfoFailureErr(e)

FailureDetectedTransition(sw, e) ==
    IF sw.onFailureNode THEN PhaseInfoFailingErr(e) ELSE PhaseInfoFailureErr(e)

HasOutputBindings_Always(sw) == sw.outputBindings >= 0

HasOutputBindings(sw) == sw.outputBindings > 0

MetadataExists_NotChecked(h) == h # "error"

MetadataExists(h) == h = "exists"

MissingOutputsTransition_Running == PhaseInfoRunning

MissingOutputsTransition == PhaseInfoFailure("SubWorkflowExecutionFailed")

EnqueueOwner_Skipped(t, trans) == Return(t, trans, "nil")

\* nCtx.EnqueueOwnerFunc()(): an error gives the unknown transition, success
\* the transition of the branch.
EnqueueOwner(t, trans) ==
    \E ok \in BOOLEAN :
        LET t1 == Call(t, "EnqueueOwner") IN
        IF ~ok THEN Return(t1, UnknownTransition, "EnqueueOwnerErr")
        ELSE Return(t1, trans, "nil")

RecursiveNodeHandlerFailed_Swallowed(t) == Return(t, PhaseInfoRunning, "nil")

\* RecursiveNodeHandler returned an error: the undefined transition together
\* with that error.
RecursiveNodeHandlerFailed(t) ==
    Return(t, PhaseInfoUndefined, "RecursiveNodeHandlerErr")

\* state.HasFailed(): write the WorkflowNodeState and return Failing or Failed
\* together with the error of the write.
FailedBranch(t) ==
    \E putOk \in BOOLEAN :
        LET workflowNodeState == [Phase |-> "Failing", Error |-> t.state.Err]
            t1 == [Call(t, "PutWorkflowNodeState") EXCEPT
                      !.put = workflowNodeState,
                      !.persisted = putOk,
                      !.wf = IF putOk THEN workflowNodeState ELSE @]
        IN  Return(t1, FailureDetectedTransition(subWorkflow, t.state.Err),
                   IF putOk THEN "nil" ELSE "PutWorkflowNodeStateErr")

\* state.IsComplete(): validate and copy the outputs of the end node.
CompleteBranch(t) ==
    IF ~HasOutputBindings(subWorkflow) THEN Return(t, PhaseInfoSuccess("none"), "nil")
    ELSE \E endNodeStatus \in {"error", "nil", "found"} :
        LET t1 == Call(t, "GetNodeExecutionStatus(end-node)") IN
        IF endNodeStatus = "error" THEN Return(t1, UnknownTransition, "EndNodeStatusErr")
        ELSE IF endNodeStatus = "nil"
        THEN Return(t1, PhaseInfoFailure("SubWorkflowExecutionFailed"), "nil")
        ELSE \E h \in {"error", "absent", "exists"} :
            LET t2 == [Call(t1, "Head") EXCEPT !.head = h] IN
            IF h = "error" THEN Return(t2, PhaseInfoUndefined, "nil")
            ELSE IF ~MetadataExists(h) THEN Return(t2, MissingOutputsTransition, "nil")
            ELSE \E copyOk \in BOOLEAN :
                LET t3 == Call(t2, "CopyRaw") IN
                IF ~copyOk
                THEN Return(t3, PhaseInfoFailure("SubWorkflowExecutionFailed"), "nil")
                ELSE Return(t3, PhaseInfoSuccess("destinationPath"), "nil")

PhaseBranch_SuccessIsComplete(state) ==
    IF HasFailed(state) THEN "Failed"
    ELSE IF IsComplete(state) \/ PartiallyComplete(state) THEN "Complete"
    ELSE "Running"

\* The branch of handleSubWorkflow a driver state selects, in the order the
\* code tests it: HasFailed, IsComplete, PartiallyComplete, else running.
PhaseBranch(state) ==
    IF HasFailed(state) THEN "Failed"
    ELSE IF IsComplete(state) THEN "Complete"
    ELSE IF PartiallyComplete(state) THEN "PartiallyComplete"
    ELSE "Running"

handleSubWorkflow_AlwaysRunning(t) ==
    \E driverOk \in BOOLEAN :
        LET t0 == Call(t, "RecursiveNodeHandler(StartNode)") IN
        IF ~driverOk THEN RecursiveNodeHandlerFailed(t0)
        ELSE \E state \in DriverStates :
            Return([t0 EXCEPT !.state = state], PhaseInfoRunning, "nil")

handleSubWorkflow(t) ==
    \E driverOk \in BOOLEAN :
        LET t0 == Call(t, "RecursiveNodeHandler(StartNode)") IN
        IF ~driverOk THEN RecursiveNodeHandlerFailed(t0)
        ELSE \E state \in DriverStates :
            LET t1 == [t0 EXCEPT !.state = state] IN
            IF PhaseBranch(state) = "Failed" THEN FailedBranch(t1)
            ELSE IF PhaseBranch(state) = "Complete" THEN CompleteBranch(t1)
            ELSE IF PhaseBranch(state) = "PartiallyComplete"
            THEN EnqueueOwner(t1, PhaseInfoRunning)
            ELSE Return(t1, PhaseInfoRunning, "nil")

\* ------------------------------------------------- startAndHandleSubWorkflow
\* Results of SetInputsForStartNode: an error, a failed status or success.
SetInputsOutcomes ==
    {[err |-> "SetInputsForStartNodeErr", NodePhase |-> "none", Err |-> NoError]} \cup
    [err : {"nil"}, NodePhase : {"Failed"}, Err : {NodeError(e) : e \in ErrorIds}] \cup
    {[err |-> "nil", NodePhase |-> "Complete", Err |-> NoError]}

InputReadFailureTransition_Undefined == PhaseInfoUndefined

\* "Failed to read input": a system failure with code RuntimeExecutionError
InputReadFailureTransition == PhaseInfoFailure("RuntimeExecutionError")

startAndHandleSubWorkflow(t) ==
    \E inputsOk \in BOOLEAN :
        LET t1 == Call(t, "InputReader.Get") IN
        IF ~inputsOk THEN Return(t1, InputReadFailureTransition, "nil")
        ELSE \E startStatus \in SetInputsOutcomes :
            LET t2 == [Call(t1, "SetInputsForStartNode") EXCEPT
                          !.start = IF startStatus.err # "nil" THEN "error"
                                    ELSE IF HasFailed(startStatus) THEN "failed"
                                    ELSE "ok"] IN
            IF startStatus.err # "nil"
            THEN Return(t2, PhaseInfoUndefined, startStatus.err)
            ELSE IF HasFailed(startStatus)
            THEN Return(t2, PhaseInfoFailureErr(startStatus.Err), "nil")
            ELSE handleSubWorkflow(t2)


\* ------------------------------------------ HandleFailureNodeOfSubWorkflow
CompletedFailureNodeTransition_OwnError(originalError, state) ==
    PhaseInfoFailureErr(state.Err)

FailedFailureNodeTransition_OriginalError(originalError, state) ==
    PhaseInfoFailureErr(originalError)

\* handling the failure node failed: its failure masks the original failure
FailedFailureNodeTransition(originalError, state) ==
    PhaseInfoFailureErr(state.Err)

CompletedFailureNodeTransition_Succeeds(originalError, state) ==
    PhaseInfoSuccess("none")

\* handling the failure node succeeded: the final status is still failure,
\* with the original error as the reason
CompletedFailureNodeTransition(originalError, state) ==
    PhaseInfoFailureErr(originalError)

HandleFailureNodeOfSubWorkflow(t) ==
    LET originalError == wfState.Error IN
    IF subWorkflow.onFailureNode
    THEN \E driverOk \in BOOLEAN :
        LET t0 == Call(t, "RecursiveNodeHandler(OnFailureNode)") IN
        IF ~driverOk THEN RecursiveNodeHandlerFailed(t0)
        ELSE \E state \in DriverStates :
            LET t1 == [t0 EXCEPT !.state = state] IN
            IF state.NodePhase = "Running" THEN Return(t1, PhaseInfoRunning, "nil")
            ELSE IF HasFailed(state)
            THEN Return(t1, FailedFailureNodeTransition(originalError, state), "nil")
            ELSE IF PartiallyComplete(state)
            THEN EnqueueOwner(t1, PhaseInfoFailingErr(originalError))
            ELSE IF IsComplete(state)
            THEN Return(t1, CompletedFailureNodeTransition(originalError, state), "nil")
            ELSE Return(t1, PhaseInfoFailureErr(originalError), "nil")
    ELSE Return(t, PhaseInfoFailureErr(originalError), "nil")

\* ------------------------------------------------------------- entry points
HandleFailingSubWorkflow ==
    /\ CanHandleFailing
    /\ LET t == NewTick("HandleFailingSubWorkflow") IN
       IF GetSubWorkflow # "nil"
       THEN Return(t, PhaseInfoFailure("SubWorkflowExecutionFailed"), "nil")
       ELSE IF ~subWorkflow.onFailureNode
       THEN Return(t, PhaseInfoFailureErr(wfState.Error), GetSubWorkflow)
       ELSE HandleFailureNodeOfSubWorkflow(Call(t, "NewNodeLookup"))

StartSubWorkflow ==
    /\ CanStart
    /\ LET t == NewTick("StartSubWorkflow") IN
       IF GetSubWorkflow # "nil"
       THEN Return(t, PhaseInfoFailure("SubWorkflowExecutionFailed"), "nil")
       ELSE \E f \in FetchOutcomes :
           LET t1 == fetchNodeLookupForSubWorkflow(t, f) IN
           IF t1.err # "nil" THEN Return(t1, UnknownTransition, t1.err)
           ELSE startAndHandleSubWorkflow(t1)

CheckSubWorkflowStatus ==
    /\ CanCheck
    /\ LET t == NewTick("CheckSubWorkflowStatus") IN
       IF GetSubWorkflow # "nil"
       THEN Return(t, PhaseInfoFailure("SubWorkflowExecutionFailed"), "nil")
       ELSE \E f \in FetchOutcomes :
           LET t1 == fetchNodeLookupForSubWorkflow(t, f) IN
           IF t1.err # "nil" THEN Return(t1, UnknownTransition, t1.err)
           ELSE startAndHandleSubWorkflow(t1)

HandleAbort_Unconditional ==
    /\ CanAbort
    /\ \E abortErr \in {"nil", "AbortHandlerErr"} :
        /\ last' = [op |-> "HandleAbort", trans |-> PhaseInfoUndefined,
                    err |-> abortErr,
                    calls |-> <<"NewNodeLookup", "AbortHandler(StartNode)">>,
                    state |-> NoState, head |-> "none", put |-> NoPut,
                    abort |-> abortErr, start |-> "none", attempt |-> attempt]
        /\ nodePhase' = IF abortErr = "nil" THEN "Aborted" ELSE nodePhase
    /\ UNCHANGED <<subWorkflow, uniqueNodeID, attempt, childStatus, wfState,
                   copies, origErr, lookupAttempt, assigned>>

HandleAbort ==
    /\ CanAbort
    /\ \E abortErr \in {"nil", "AbortHandlerErr"} :
        LET resolved == GetSubWorkflow = "nil"
            err == IF resolved THEN abortErr ELSE GetSubWorkflow
        IN
        /\ ~resolved => abortErr = "nil"
        /\ last' = [op |-> "HandleAbort", trans |-> PhaseInfoUndefined,
                    err |-> err,
                    calls |-> IF resolved
                              THEN <<"NewNodeLookup", "AbortHandler(StartNode)">>
                              ELSE <<>>,
                    state |-> NoState, head |-> "none", put |-> NoPut,
                    abort |-> IF resolved THEN abortErr ELSE "none",
                    start |-> "none", attempt |-> attempt]
        /\ nodePhase' = IF err = "nil" THEN "Aborted" ELSE nodePhase
    /\ UNCHANGED <<subWorkflow, uniqueNodeID, attempt, childStatus, wfState,
                   copies, origErr, lookupAttempt, assigned>>

\* The outer retry policy starts a new attempt of the enclosing node after a
\* retryable failure; the node state of the attempt is reset, the child
\* statuses stay.
RetryAttempt ==
    /\ nodePhase = "Failed"
    /\ Retryable(last.trans.err)
    /\ attempt < MaxAttempts
    /\ attempt' = attempt + 1
    /\ nodePhase' = "NotStarted"
    /\ wfState' = UndefinedState
    /\ origErr' = NoError
    /\ last' = [op |-> "RetryAttempt", trans |-> PhaseInfoUndefined, err |-> "nil",
                calls |-> <<>>, state |-> NoState, head |-> "none", put |-> NoPut,
                abort |-> "none", start |-> "none", attempt |-> attempt + 1]
    /\ UNCHANGED <<subWorkflow, uniqueNodeID, childStatus, copies, lookupAttempt,
                   assigned>>

Next ==
    \/ StartSubWorkflow
    \/ CheckSubWorkflowStatus
    \/ HandleFailingSubWorkflow
    \/ HandleAbort
    \/ RetryAttempt

Spec == Init /\ [][Next]_vars

\* A tick in which no collaborator returned an error and the driver, if it
\* ran, reported Complete or Failed for the graph it drives.
GoodTick ==
    /\ last'.err = "nil"
    /\ last'.head # "error"
    /\ last'.state.NodePhase \in {"none", "Complete", "Failed"}

\* The enclosing node under a fair control loop that is never asked to abort:
\* the entry point of the current phase is invoked again and again, and
\* ticks without collaborator errors in which the driver has finished its
\* graph keep happening.
LiveNext ==
    \/ StartSubWorkflow
    \/ CheckSubWorkflowStatus
    \/ HandleFailingSubWorkflow
    \/ RetryAttempt

LiveSpec ==
    /\ Init
    /\ [][LiveNext]_vars
    /\ WF_vars(StartSubWorkflow /\ GoodTick)
    /\ WF_vars(CheckSubWorkflowStatus /\ GoodTick)
    /\ WF_vars(HandleFailingSubWorkflow /\ GoodTick)

\* FindSubWorkflow is asked again on every tick.  In this specification the
\* execution context can stop resolving the reference while the enclosing
\* node is running or failing, so that every entry point meets a nil result.
SubWorkflowRemoved ==
    /\ subWorkflow.found
    /\ nodePhase \in {"Running", "Failing"}
    /\ subWorkflow' = NilSubWorkflow
    /\ last' = [op |-> "SubWorkflowRemoved", trans |-> PhaseInfoUndefined,
                err |-> "nil", calls |-> <<>>, state |-> NoState, head |-> "none",
                put |-> NoPut, abort |-> "none", start |-> "none",
                attempt |-> attempt]
    /\ UNCHANGED <<uniqueNodeID, attempt, childStatus, wfState, nodePhase,
                   copies, origErr, lookupAttempt, assigned>>

NextUnresolved ==
    \/ StartSubWorkflow
    \/ CheckSubWorkflowStatus
    \/ HandleFailingSubWorkflow
    \/ HandleAbort
    \/ RetryAttempt
    \/ SubWorkflowRemoved

SpecUnresolved == Init /\ [][NextUnresolved]_vars


\* ------------------------------------------------------------------- claims
StartOrCheck == last.op \in {"StartSubWorkflow", "CheckSubWorkflowStatus"}

Copied == Count(last.calls, "CopyRaw")

Enqueued == Count(last.calls, "EnqueueOwner")

\* C1: over all the ticks of one enclosing node CopyRaw is performed at most
\* once, and a tick that copies is a Start/Check tick whose Head probe
\* reported that the outputs file of the end node exists.
C1_CopyAtMostOnceAfterHead ==
    /\ copies <= 1
    /\ Copied > 0 => (StartOrCheck /\ last.head = "exists" /\ Copied = 1)

C1_Witness_CopiedAfterRetry ==
    /\ copies = 1
    /\ Copied = 1
    /\ last.head = "exists"
    /\ attempt > 0

\* C2: driver Complete, output bindings declared, Head succeeded and reported
\* the outputs file absent: the tick returns Failed (not Running, Succeeded
\* or undefined) with a nil error and copies nothing.
C2_MissingOutputsIsTerminalFailure ==
    (/\ StartOrCheck
     /\ last.state.NodePhase = "Complete"
     /\ subWorkflow.outputBindings > 0
     /\ last.head = "absent")
    => /\ last.trans.phase = "Failed"
       /\ last.trans.err.kind = "SubWorkflowExecutionFailed"
       /\ last.err = "nil"
       /\ Copied = 0

C2_Witness_HeadAbsent ==
    /\ StartOrCheck
    /\ last.state.NodePhase = "Complete"
    /\ subWorkflow.outputBindings > 0
    /\ last.head = "absent"
    /\ nodePhase = "Failed"

\* C3: driver Complete and no output bindings declared: the tick returns
\* Succeeded without OutputInfo and calls neither the end-node status lookup
\* nor Head nor CopyRaw.
C3_NoBindingsSkipsPropagation ==
    (/\ StartOrCheck
     /\ last.state.NodePhase = "Complete"
     /\ subWorkflow.outputBindings = 0)
    => /\ last.trans = PhaseInfoSuccess("none")
       /\ last.err = "nil"
       /\ Count(last.calls, "GetNodeExecutionStatus(end-node)") = 0
       /\ Count(last.calls, "Head") = 0
       /\ Copied = 0
       /\ last.head = "none"

C3_Witness_CompleteWithoutBindings ==
    /\ StartOrCheck
    /\ last.state.NodePhase = "Complete"
    /\ subWorkflow.outputBindings = 0
    /\ nodePhase = "Succeeded"

\* C4: masking across ticks: when an earlier Start/Check tick persisted the
\* failure E1 and a HandleFailingSubWorkflow tick sees the failure node
\* Complete or PartiallyComplete, the Failed (Complete) or Failing
\* (PartiallyComplete) transition it returns carries E1, whatever error the
\* state of the failure-node driver carries.
C4_OriginalErrorMasksFailureNode ==
    (/\ last.op = "HandleFailingSubWorkflow"
     /\ last.state.NodePhase \in {"Complete", "Success"}
     /\ last.trans.phase \in {"Failed", "Failing"})
    => /\ origErr # NoError
       /\ last.trans.err = origErr
       /\ last.trans.phase =
             (IF last.state.NodePhase = "Complete" THEN "Failed" ELSE "Failing")

C4_Witness_FailureNodeCompleteWithOtherError ==
    /\ last.op = "HandleFailingSubWorkflow"
    /\ last.state.NodePhase = "Complete"
    /\ last.state.Err # NoError
    /\ last.state.Err # origErr
    /\ last.trans.phase = "Failed"

\* C5 as stated: a tick whose driver reports PartiallyComplete invokes the
\* re-enqueue callback exactly once and returns Running (start/check) or
\* Failing (handle-failing); other driver results never invoke the callback.
C5_Original_PartiallyCompleteYieldsRunningOrFailing ==
    IF last.state.NodePhase = "Success"
    THEN /\ Enqueued = 1
         /\ last.trans.phase = (IF StartOrCheck THEN "Running" ELSE "Failing")
    ELSE Enqueued = 0

\* C5 amended: a tick whose driver reports PartiallyComplete invokes the
\* re-enqueue callback exactly once; when the callback succeeds the tick
\* returns Running (start/check) or Failing (handle-failing) with a nil error,
\* when it fails the tick returns the unknown transition with the callback's
\* error; it never returns Succeeded or Failed.  Other driver results never
\* invoke the callback.
C5_PartiallyCompleteEnqueuesOnce ==
    IF last.state.NodePhase = "Success"
    THEN /\ Enqueued = 1
         /\ \/ /\ last.err = "nil"
               /\ last.trans.phase = (IF StartOrCheck THEN "Running" ELSE "Failing")
            \/ /\ last.err = "EnqueueOwnerErr"
               /\ last.trans = UnknownTransition
    ELSE Enqueued = 0

C5_Witness_EnqueueFailed ==
    /\ last.op = "HandleFailingSubWorkflow"
    /\ last.state.NodePhase = "Success"
    /\ Enqueued = 1
    /\ last.err = "EnqueueOwnerErr"

\* C6: HandleAbort with an unresolved sub-workflow reference returns the
\* resolution error and never calls AbortHandler; with a resolved reference it
\* calls AbortHandler exactly once, at the start node, and returns exactly
\* what AbortHandler returned.
C6_AbortResolvesBeforeAborting ==
    last.op = "HandleAbort" =>
        IF subWorkflow.found
        THEN /\ Count(last.calls, "AbortHandler(StartNode)") = 1
             /\ last.abort \in {"nil", "AbortHandlerErr"}
             /\ last.err = last.abort
        ELSE /\ last.err = "FindSubWorkflowErr"
             /\ Count(last.calls, "AbortHandler(StartNode)") = 0
             /\ last.abort = "none"

C6_Witness_AbortUnresolved ==
    /\ last.op = "HandleAbort"
    /\ ~subWorkflow.found
    /\ last.err = "FindSubWorkflowErr"

\* C7: a Start/Check tick that builds the NodeLookup again in an attempt in
\* which it was already built leaves the unique node ID, unique parent ID and
\* parent attempts of every child as the first build left them.
C7_NodeLookupIdempotent ==
    [][(/\ lookupAttempt = attempt
        /\ last'.op \in {"StartSubWorkflow", "CheckSubWorkflowStatus"}
        /\ Count(last'.calls, "fetchNodeLookupForSubWorkflow") = 1)
       => childStatus' = childStatus]_vars

C7_Witness_RebuiltInSameAttempt ==
    /\ last.op = "CheckSubWorkflowStatus"
    /\ Count(last.calls, "fetchNodeLookupForSubWorkflow") = 1
    /\ last.err = "nil"
    /\ lookupAttempt = attempt
    /\ attempt > 0

\* C8: the unique IDs assigned to one child at two different attempts of the
\* enclosing node differ; after a tick that built the NodeLookup at attempt a
\* every child records parent attempts a and the unique ID of the enclosing
\* node as its unique parent ID.
C8_AttemptsGetDistinctIDs ==
    /\ \A n \in Nodes : \A x, y \in assigned[n] : x[1] # y[1] => x[2] # y[2]
    /\ lookupAttempt = attempt =>
          \A n \in Nodes :
              /\ childStatus[n].parentAttempts = attempt
              /\ childStatus[n].uniqueParentNodeID = uniqueNodeID
              /\ <<attempt, childStatus[n].uniqueNodeID>> \in assigned[n]

C8_Witness_TwoAttemptsAssigned ==
    /\ lookupAttempt = attempt
    /\ attempt > 0
    /\ \A n \in Nodes : Cardinality(assigned[n]) >= 2

\* C9: driver Complete, output bindings declared and the Head call itself
\* failed: the tick returns the unknown transition together with the non-nil
\* error of Head.
C9_HeadErrorIsReturned ==
    (StartOrCheck /\ last.head = "error")
    => (last.trans = UnknownTransition /\ last.err # "nil")

\* C10: driver Failed with error E from the start node: the tick writes
\* WorkflowNodeState{Failing, E} (it is the persisted state when the write
\* succeeds) and returns a transition carrying E that is Failing exactly when
\* a failure node is configured, and Failed otherwise.
C10_FailureDetection ==
    (StartOrCheck /\ last.state.NodePhase = "Failed")
    => /\ last.put = [Phase |-> "Failing", Error |-> last.state.Err]
       /\ Count(last.calls, "PutWorkflowNodeState") = 1
       /\ last.err = "nil" => wfState = last.put
       /\ last.trans.err = last.state.Err
       /\ last.state.Err # NoError
       /\ last.trans.phase = (IF subWorkflow.onFailureNode THEN "Failing" ELSE "Failed")

C10_Witness_FailingWithFailureNode ==
    /\ StartOrCheck
    /\ last.state.NodePhase = "Failed"
    /\ subWorkflow.onFailureNode
    /\ last.trans.phase = "Failing"
    /\ wfState = [Phase |-> "Failing", Error |-> last.state.Err]
    /\ nodePhase = "Failing"


\* C11: HandleFailingSubWorkflow with a failure node whose run reports Failed
\* with error E2 returns Failed carrying E2, the error of the failure handler,
\* not the original error of the persisted WorkflowNodeState.
C11_FailedFailureNodeReplacesError ==
    (/\ last.op = "HandleFailingSubWorkflow"
     /\ subWorkflow.onFailureNode
     /\ last.state.NodePhase = "Failed")
    => /\ last.trans = PhaseInfoFailureErr(last.state.Err)
       /\ last.state.Err # NoError
       /\ last.err = "nil"

C11_Witness_FailureNodeFailedWithNewError ==
    /\ last.op = "HandleFailingSubWorkflow"
    /\ subWorkflow.onFailureNode
    /\ last.state.NodePhase = "Failed"
    /\ origErr # NoError
    /\ last.state.Err # origErr
    /\ wfState.Error = origErr
    /\ nodePhase = "Failed"

DriverCalled ==
    Count(last.calls, "RecursiveNodeHandler(StartNode)")
        + Count(last.calls, "RecursiveNodeHandler(OnFailureNode)")

\* C12: a tick in which RecursiveNodeHandler returned an error (Start/Check or
\* HandleFailingSubWorkflow) returns the undefined transition together with
\* that error, writes no WorkflowNodeState, requests no re-enqueue and makes
\* no artifact-store call.
C12_DriverErrorIsReturned ==
    [][(/\ last'.op \in {"StartSubWorkflow", "CheckSubWorkflowStatus",
                         "HandleFailingSubWorkflow"}
        /\ Count(last'.calls, "RecursiveNodeHandler(StartNode)")
             + Count(last'.calls, "RecursiveNodeHandler(OnFailureNode)") = 1
        /\ last'.state = NoState)
       => /\ last'.trans = PhaseInfoUndefined
          /\ last'.err = "RecursiveNodeHandlerErr"
          /\ last'.put = NoPut
          /\ wfState' = wfState
          /\ Count(last'.calls, "PutWorkflowNodeState") = 0
          /\ Count(last'.calls, "EnqueueOwner") = 0
          /\ Count(last'.calls, "Head") = 0
          /\ Count(last'.calls, "CopyRaw") = 0
          /\ copies' = copies
          /\ nodePhase' = nodePhase]_vars

C12_Witness_FailureNodeDriverError ==
    /\ last.op = "HandleFailingSubWorkflow"
    /\ DriverCalled = 1
    /\ last.state = NoState
    /\ last.err = "RecursiveNodeHandlerErr"
    /\ nodePhase = "Failing"


\* C13: the inputs of the start node are set by StartSubWorkflow ticks only:
\* a CheckSubWorkflowStatus tick never calls SetInputsForStartNode (nor reads
\* the inputs) and goes from the NodeLookup build straight to the driver.
C13_InputsSeededOnStartOnly ==
    last.op = "CheckSubWorkflowStatus" =>
        /\ Count(last.calls, "SetInputsForStartNode") = 0
        /\ Count(last.calls, "InputReader.Get") = 0

\* C14: HandleFailingSubWorkflow never returns Succeeded: whatever the
\* configuration and the result of the failure-node driver, the outcome is
\* Running, Failing, Failed or the undefined transition.
C14_HandleFailingNeverSucceeds ==
    /\ last.op = "HandleFailingSubWorkflow" =>
          /\ last.trans.phase \in {"Running", "Failing", "Failed", "Undefined"}
          /\ last.trans.output = "none"
    /\ nodePhase = "Succeeded" => StartOrCheck

C14_Witness_FailureNodeCompleteStaysFailed ==
    /\ last.op = "HandleFailingSubWorkflow"
    /\ last.state.NodePhase = "Complete"
    /\ last.err = "nil"
    /\ nodePhase = "Failed"

\* C15: every entry point that returns a Transition returns a non-nil error
\* only together with the undefined transition, and a transition with a
\* decided phase (Running, Failing, Failed, Succeeded) only with a nil error.
C15_ErrorOnlyWithUndefinedTransition ==
    last.op \in {"StartSubWorkflow", "CheckSubWorkflowStatus",
                 "HandleFailingSubWorkflow"}
    => /\ last.err # "nil" => last.trans.phase = "Undefined"
       /\ last.trans.phase \in {"Running", "Failing", "Failed", "Succeeded"}
             => last.err = "nil"


\* The decision order of the phase translator as the specification gives it:
\* Failed, then PartiallyComplete, then Complete, then Running as default.
ReferenceBranch(state) ==
    IF state.NodePhase = "Failed" THEN "Failed"
    ELSE IF state.NodePhase = "Success" THEN "PartiallyComplete"
    ELSE IF state.NodePhase = "Complete" THEN "Complete"
    ELSE "Running"

\* The branch a Start/Check tick took, read off what the tick did.
ObservedBranch ==
    IF Count(last.calls, "PutWorkflowNodeState") > 0 THEN "Failed"
    ELSE IF Enqueued > 0 THEN "PartiallyComplete"
    ELSE IF last.trans = PhaseInfoRunning THEN "Running"
    ELSE "Complete"

\* C16: for every state the driver reports, the branch handleSubWorkflow
\* takes is the one the reference order Failed, PartiallyComplete, Complete,
\* Running (default) selects, and a tick takes exactly one branch: the
\* effects of the Failed, PartiallyComplete and Complete branches never occur
\* together.
C16_PhaseTranslationMatchesReferenceOrder ==
    (StartOrCheck /\ last.state # NoState)
    => /\ ObservedBranch = ReferenceBranch(last.state)
       /\ Cardinality({b \in {"put", "enqueue", "complete"} :
              \/ b = "put" /\ Count(last.calls, "PutWorkflowNodeState") > 0
              \/ b = "enqueue" /\ Enqueued > 0
              \/ b = "complete" /\
                    (\/ Count(last.calls, "GetNodeExecutionStatus(end-node)") > 0
                     \/ last.trans.phase = "Succeeded")}) <= 1

C16_Witness_PartiallyCompleteTaken ==
    /\ StartOrCheck
    /\ last.state.NodePhase = "Success"
    /\ Enqueued = 1
    /\ last.trans = PhaseInfoRunning
    /\ nodePhase = "Running"


\* C17: with an unresolved sub-workflow reference StartSubWorkflow,
\* CheckSubWorkflowStatus and HandleFailingSubWorkflow each return a terminal
\* Failed transition with a nil error and call neither the recursive
\* executor, the NodeLookup build, the status writer nor the artifact store.
C17_UnresolvedReferenceFailsWithoutCalls ==
    [][(/\ last'.op \in {"StartSubWorkflow", "CheckSubWorkflowStatus",
                         "HandleFailingSubWorkflow"}
        /\ ~subWorkflow.found)
       => /\ last'.trans = PhaseInfoFailure("SubWorkflowExecutionFailed")
          /\ last'.err = "nil"
          /\ last'.calls = <<>>
          /\ last'.put = NoPut
          /\ childStatus' = childStatus
          /\ wfState' = wfState
          /\ copies' = copies
          /\ nodePhase' = "Failed"]_vars

C17_Witness_HandleFailingUnresolved ==
    /\ last.op = "HandleFailingSubWorkflow"
    /\ ~subWorkflow.found
    /\ wfState.Phase = "Failing"
    /\ nodePhase = "Failed"


InputReadFailed ==
    /\ Count(last.calls, "InputReader.Get") = 1
    /\ Count(last.calls, "SetInputsForStartNode") = 0

\* C18 as stated: a start tick in which reading the inputs or setting the
\* inputs of the start node fails returns a terminal Failed transition
\* classified as a system-level execution error, and does not run the driver.
C18_Original_InputFailuresAreTerminal ==
    (last.op = "StartSubWorkflow" /\ (InputReadFailed \/ last.start = "error"))
    => /\ last.trans = PhaseInfoFailure("RuntimeExecutionError")
       /\ DriverCalled = 0

\* C18 amended: a start tick in which reading the inputs fails returns a
\* terminal Failed transition classified as a system-level execution error
\* with a nil error; one in which SetInputsForStartNode returns an error
\* returns the undefined transition together with that error; in both the
\* driver is not run.
C18_InputFailures ==
    last.op = "StartSubWorkflow" =>
        /\ InputReadFailed =>
              /\ last.trans = PhaseInfoFailure("RuntimeExecutionError")
              /\ last.err = "nil"
              /\ DriverCalled = 0
        /\ last.start = "error" =>
              /\ last.trans = PhaseInfoUndefined
              /\ last.err = "SetInputsForStartNodeErr"
              /\ DriverCalled = 0

C18_Witness_SetInputsError ==
    /\ last.op = "StartSubWorkflow"
    /\ last.start = "error"
    /\ last.err = "SetInputsForStartNodeErr"
    /\ nodePhase = "NotStarted"


\* C19: HandleFailingSubWorkflow with a failure node returns a terminal
\* Failed transition only in a tick in which the failure-node driver reported
\* Complete or Failed; for every other phase the driver reports (Running,
\* PartiallyComplete, not yet started) the tick stays non-terminal.
C19_FailureNodeNotAbandoned ==
    (/\ last.op = "HandleFailingSubWorkflow"
     /\ subWorkflow.onFailureNode
     /\ last.state # NoState)
    => /\ last.trans.phase = "Failed" => last.state.NodePhase \in {"Complete", "Failed"}
       /\ last.state.NodePhase \notin {"Complete", "Failed"}
             => last.trans.phase \in {"Running", "Failing", "Undefined"}

\* C20: under the fair control loop, whenever the enclosing node is not yet
\* decided (not started, Running or Failing) it eventually receives a terminal
\* transition, Succeeded or Failed.
C20_EventuallyTerminal ==
    (nodePhase \in {"NotStarted", "Running", "Failing"})
        ~> (nodePhase \in {"Succeeded", "Failed"})

C20_Witness_TerminalAfterFailing ==
    /\ last.op = "HandleFailingSubWorkflow"
    /\ last.state.NodePhase \in {"Complete", "Failed"}
    /\ nodePhase = "Failed"
    /\ attempt > 0

====
